---- MODULE Spec2Model ----
(***************************************************************************)
(* The translation service of src/ai-models/translation/model_handler.py:  *)
(* one TranslationModelHandler (the module-level model_handler) with its   *)
(* two dictionaries, models and tokenizers, keyed by the model name, and   *)
(* the three endpoints POST /translate, POST /translate/batch and          *)
(* POST /detect.                                                           *)
(*                                                                         *)
(* Scheduling.  All three endpoints are `async def` and run on the one     *)
(* event loop of uvicorn.  The only awaits inside them are awaits of       *)
(* coroutines of the same handler (translate awaits detect_language,       *)
(* batch_translate awaits translate), none of which ever awaits a future:  *)
(* from_pretrained, predict and generate are plain blocking calls.  A      *)
(* coroutine that never suspends is run to its end before the loop picks   *)
(* another task, so a request's handler is one atomic step, and requests   *)
(* that are in flight together are handled in some order, one whole        *)
(* handler after the other.  Each action below is one such handler.        *)
(*                                                                         *)
(* Strings.  A Python str is a sequence of symbols: its alphabetic runs,   *)
(* its separators ("-", " ", "\n") and fixed literals of the source, in    *)
(* order.  "" is <<>>, "pt-br" is <<"pt", "-", "br">>.  Concatenation is   *)
(* \o, so two strings are equal exactly when their sequences are.          *)
(* Floats are kept in hundredths (1.0 is 100, 0.95 is 95).                 *)
(***************************************************************************)
EXTENDS Integers, Sequences, FiniteSets, TLC

VARIABLES models, tokenizers, tokCalls, mdlCalls, loadFailed, last

vars == <<models, tokenizers, tokCalls, mdlCalls, loadFailed, last>>

(* Bound of the model: the from_pretrained calls for tokenizers that the
   repository serves in one run. *)
MaxLoads == 2

(***************************************************************************)
(* Values                                                                  *)
(***************************************************************************)
NoneVal == <<"<None>">>
EmptyStr == <<>>

Truthy(v) == v # NoneVal /\ v # EmptyStr

RECURSIVE Replace(_, _, _)
Replace(s, old, new) ==
    IF s = <<>> THEN <<>>
    ELSE (IF Head(s) = old THEN new ELSE <<Head(s)>>) \o Replace(Tail(s), old, new)

Contains(s, sym) == \E i \in 1..Len(s) : s[i] = sym

PT == <<"pt">>
BR == <<"br">>
PT_BR == <<"pt", "-", "br">>
BR_PT == <<"br", "-", "pt">>

(* What the requests carry: text: str, and the pairs <<source_language,
   target_language>> with target_language: str and source_language:
   Optional[str]. *)
BomDia == <<"bom", "\n", "dia">>
Demat == <<"demat">>
Texts == { BomDia, Demat }
LangArgs ==
    { <<NoneVal, PT>>, <<EmptyStr, PT>>, <<PT, PT>>, <<PT, BR_PT>>,
      <<PT_BR, PT>>, <<PT, EmptyStr>> }
TextLists ==
    { <<>>, <<Demat>>, <<BomDia, Demat>>, <<Demat, BomDia, Demat>> }

(* Where a call into an external collaborator raises during one translate
   or detect_language invocation; the first exception ends the invocation,
   so one point per invocation covers every outcome. *)
Faults == { "none", "detect", "tokenizer", "model", "generate" }

HTTPException(status, detail) ==
    [cls |-> "HTTPException", status_code |-> status, detail |-> detail]

TranslationResponse(text, lang, conf) ==
    [cls |-> "TranslationResponse", translated_text |-> text,
     detected_language |-> lang, confidence |-> conf]

LanguageDetectionResponse(lang, conf) ==
    [cls |-> "LanguageDetectionResponse", detected_language |-> lang,
     confidence |-> conf]

BatchTranslationResponse(results) ==
    [cls |-> "BatchTranslationResponse", translations |-> results]

ValidationError == [cls |-> "ValidationError"]

NoValue == [cls |-> "NoValue"]

Raised(v) == v.cls \in {"HTTPException", "ValidationError"}

(* A dict is a function whose domain is its set of keys. *)
EmptyDict == <<>>
Put(d, k, v) == [x \in (DOMAIN d) \cup {k} |-> IF x = k THEN v ELSE d[x]]
Count(d, k) == IF k \in DOMAIN d THEN d[k] ELSE 0

RECURSIVE Total(_, _)
Total(d, keys) ==
    IF keys = {} THEN 0
    ELSE LET k == CHOOSE x \in keys : TRUE
         IN d[k] + Total(d, keys \ {k})

(***************************************************************************)
(* External collaborators                                                  *)
(***************************************************************************)
(* fasttext's predict: refuses a text that holds a line break, otherwise
   gives the labels and the scores of its top prediction. *)
Predict(line) ==
    IF Contains(line, "\n") THEN [raised |-> TRUE]
    ELSE IF Head(line) = "demat"
         THEN [raised |-> FALSE, labels |-> << <<"__label__", "br">> >>, scores |-> <<91>>]
         ELSE [raised |-> FALSE, labels |-> << <<"__label__", "pt">> >>, scores |-> <<98>>]

(* MarianTokenizer.from_pretrained / MarianMTModel.from_pretrained: the
   serial-th object the repository hands out for this name.  loadedFor is a
   ghost field: the arguments of the _load_model call that asked for it. *)
Instance(kind, name, serial, pair) ==
    [kind |-> kind, name |-> name, serial |-> serial, loadedFor |-> pair]

(* from_pretrained raises for a name that is not a string and whenever the
   repository cannot deliver the resource. *)
FromPretrainedRaises(kind, name, fault) == name = NoneVal \/ fault = kind

(* tokenizer(text) -> model.generate -> tokenizer.decode: the translation
   the model of that name gives of the text. *)
Generate(model, tokenizer, text) == model.name \o <<": ">> \o text

(***************************************************************************)
(* TranslationModelHandler                                                 *)
(***************************************************************************)
ModelPrefix == <<"Helsinki-NLP/opus-mt-">>

GetModelName(source_lang, target_lang) ==
    IF Truthy(source_lang) /\ Truthy(target_lang)
    THEN ModelPrefix \o source_lang \o <<"-">> \o target_lang
    ELSE NoneVal

(* The handler's dictionaries with the repository's call counts. *)
Handler ==
    [models |-> models, tokenizers |-> tokenizers, tokCalls |-> tokCalls,
     mdlCalls |-> mdlCalls, loadFailed |-> loadFailed]

(* CacheMiss gone wrong: the dictionary is never consulted. *)
CacheMissAlways(h, model_name) == TRUE

CacheMiss(h, model_name) == model_name \notin DOMAIN h.models

UnsupportedPair(source_lang, target_lang) ==
    HTTPException(400, <<"Unsupported language pair: ">> \o source_lang
                          \o <<"-">> \o target_lang)

(* The try block of _load_model: the tokenizer is stored first, the model
   second; an exception at either call leaves what was stored before it. *)
Materialize(h, fault, model_name, source_lang, target_lang) ==
    LET pair == <<source_lang, target_lang>>
        nTok == Count(h.tokCalls, model_name) + 1
        nMdl == Count(h.mdlCalls, model_name) + 1
        h1 == [h EXCEPT !.tokCalls = Put(@, model_name, nTok)]
        h2 == [h1 EXCEPT !.tokenizers =
                   Put(@, model_name, Instance("tokenizer", model_name, nTok, pair)),
                         !.mdlCalls = Put(@, model_name, nMdl)]
        h3 == [h2 EXCEPT !.models =
                   Put(@, model_name, Instance("model", model_name, nMdl, pair))]
    IN  IF FromPretrainedRaises("tokenizer", model_name, fault)
        THEN [h |-> [h1 EXCEPT !.loadFailed = @ \cup {model_name}],
              raised |-> TRUE, loads |-> 1]
        ELSE IF FromPretrainedRaises("model", model_name, fault)
        THEN [h |-> [h2 EXCEPT !.loadFailed = @ \cup {model_name}],
              raised |-> TRUE, loads |-> 2]
        ELSE [h |-> h3, raised |-> FALSE, loads |-> 2]

(* The return of _load_model, or the HTTPException of its except clause,
   once the cache lookup and the materialization m are done. *)
LoadResult(m, model_name, source_lang, target_lang) ==
    IF m.raised
    THEN [h |-> m.h, exc |-> UnsupportedPair(source_lang, target_lang),
          name |-> model_name, loads |-> m.loads]
    ELSE [h |-> m.h, exc |-> NoValue, name |-> model_name, loads |-> m.loads,
          model |-> m.h.models[model_name],
          tokenizer |-> m.h.tokenizers[model_name]]

LoadModelNamed(h, fault, model_name, source_lang, target_lang) ==
    LoadResult(IF CacheMiss(h, model_name)
               THEN Materialize(h, fault, model_name, source_lang, target_lang)
               ELSE [h |-> h, raised |-> FALSE, loads |-> 0],
               model_name, source_lang, target_lang)

LoadModel(h, fault, source_lang, target_lang) ==
    LoadModelNamed(h, fault, GetModelName(source_lang, target_lang),
                   source_lang, target_lang)

(* Lines 84-92 of detect_language, given what predict returned or raised. *)
DetectionOf(predictions, fault) ==
    IF fault = "detect" \/ predictions.raised
    THEN HTTPException(500, <<"Language detection failed: ", "predict">>)
    ELSE LanguageDetectionResponse(
             Replace(predictions.labels[1], "__label__", <<>>),
             predictions.scores[1])

DetectLanguage(text, fault) ==
    DetectionOf(Predict(Replace(text, "\n", <<" ">>)), fault)

(* NeedsDetection gone wrong: `source_lang is None` for `not source_lang`. *)
NeedsDetectionNoneOnly(source_lang) == source_lang = NoneVal

NeedsDetection(source_lang) == ~Truthy(source_lang)

(* SameLanguage gone wrong: the short-circuit of line 100 is never taken. *)
SameLanguageNever(source_lang, target_lang) == FALSE

SameLanguage(source_lang, target_lang) == source_lang = target_lang

(* One invocation of translate: the handler after it, what it returned or
   raised, and what it did on the way (detects: calls of detect_language,
   eff: the effective source language, name: the model name resolved,
   loads: from_pretrained calls, entry: the model it was given). *)
Invocation(h, out, detects, eff, name, loads, loadRaised, entry) ==
    [h |-> h, out |-> out, detects |-> detects, eff |-> eff, name |-> name,
     loads |-> loads, loadRaised |-> loadRaised, entry |-> entry]

(* Lines 109-120 of translate, given what _load_model returned or raised. *)
TranslateLoaded(l, fault, text, eff, detects) ==
    IF Raised(l.exc)
    THEN Invocation(l.h, l.exc, detects, eff, l.name, l.loads, TRUE, NoValue)
    ELSE IF fault = "generate"
    THEN Invocation(l.h, HTTPException(500, <<"generate">>), detects, eff,
                    l.name, l.loads, FALSE, l.model)
    ELSE Invocation(l.h,
                    TranslationResponse(Generate(l.model, l.tokenizer, text),
                                        eff, 95),
                    detects, eff, l.name, l.loads, FALSE, l.model)

(* Lines 100-107 of translate, given the effective source language. *)
TranslateFrom(h, fault, text, target_lang, eff, detects) ==
    IF SameLanguage(eff, target_lang)
    THEN Invocation(h, TranslationResponse(text, eff, 100), detects, eff,
                    NoneVal, 0, FALSE, NoValue)
    ELSE TranslateLoaded(LoadModel(h, fault, eff, target_lang), fault, text,
                         eff, detects)

(* Lines 95-98 of translate, given what detect_language returned or raised. *)
TranslateDetected(detection_result, h, fault, text, target_lang) ==
    IF Raised(detection_result)
    THEN Invocation(h, detection_result, 1, NoneVal, NoneVal, 0, FALSE, NoValue)
    ELSE TranslateFrom(h, fault, text, target_lang,
                       detection_result.detected_language, 1)

Translate(h, fault, text, target_lang, source_lang) ==
    IF NeedsDetection(source_lang)
    THEN TranslateDetected(DetectLanguage(text, fault), h, fault, text,
                           target_lang)
    ELSE TranslateFrom(h, fault, text, target_lang, source_lang, 0)

(* What an invocation leaves in the trace: the text it was called with and
   everything it did, without the handler. *)
Trace(r, text) ==
    [text |-> text, out |-> r.out, detects |-> r.detects, eff |-> r.eff,
     name |-> r.name, loads |-> r.loads, loadRaised |-> r.loadRaised,
     entry |-> r.entry]

(* The loop of batch_translate from item i on; acc holds the handler, the
   results appended so far and the trace of the invocations made.  BatchStep
   is the loop body, given the invocation r of translate for item i. *)
RECURSIVE BatchLoop(_, _, _, _, _, _)

(* BatchStep gone wrong: results.insert(0, result) for results.append. *)
BatchStepPrepend(acc, r, i, faults, texts, target_lang, source_lang) ==
    IF Raised(r.out)
    THEN [h |-> r.h, inv |-> Append(acc.inv, Trace(r, texts[i])), out |-> r.out]
    ELSE BatchLoop([h |-> r.h, results |-> <<r.out>> \o acc.results,
                    inv |-> Append(acc.inv, Trace(r, texts[i]))],
                   i + 1, faults, texts, target_lang, source_lang)

(* BatchStep gone wrong: a failing item is skipped and the loop goes on. *)
BatchStepSkipFailed(acc, r, i, faults, texts, target_lang, source_lang) ==
    BatchLoop([h |-> r.h,
               results |-> IF Raised(r.out) THEN acc.results
                           ELSE Append(acc.results, r.out),
               inv |-> Append(acc.inv, Trace(r, texts[i]))],
              i + 1, faults, texts, target_lang, source_lang)

BatchStep(acc, r, i, faults, texts, target_lang, source_lang) ==
    IF Raised(r.out)
    THEN [h |-> r.h, inv |-> Append(acc.inv, Trace(r, texts[i])), out |-> r.out]
    ELSE BatchLoop([h |-> r.h, results |-> Append(acc.results, r.out),
                    inv |-> Append(acc.inv, Trace(r, texts[i]))],
                   i + 1, faults, texts, target_lang, source_lang)

BatchLoop(acc, i, faults, texts, target_lang, source_lang) ==
    IF i > Len(texts)
    THEN [h |-> acc.h, inv |-> acc.inv,
          out |-> BatchTranslationResponse(acc.results)]
    ELSE BatchStep(acc,
                   Translate(acc.h, faults[i], texts[i], target_lang, source_lang),
                   i, faults, texts, target_lang, source_lang)

BatchTranslate(h, faults, texts, target_lang, source_lang) ==
    BatchLoop([h |-> h, results |-> <<>>, inv |-> <<>>], 1, faults, texts,
              target_lang, source_lang)

(* pydantic's validation of a str field: the value must be a str. *)
StrField(v) == v.cls = "str"

(* The /detect endpoint: the handler's return value goes into the
   detected_language field, the confidence is the fixed 0.95. *)
DetectResponse(detected) ==
    IF Raised(detected) THEN detected
    ELSE IF StrField(detected)
    THEN LanguageDetectionResponse(detected, 95)
    ELSE ValidationError

DetectEndpoint(text, fault) == DetectResponse(DetectLanguage(text, fault))

(***************************************************************************)
(* The service                                                             *)
(***************************************************************************)
Init ==
    /\ models = EmptyDict
    /\ tokenizers = EmptyDict
    /\ tokCalls = EmptyDict
    /\ mdlCalls = EmptyDict
    /\ loadFailed = {}
    /\ last = [op |-> "init", texts |-> <<>>, target |-> EmptyStr,
               source |-> NoneVal, out |-> NoValue, inv |-> <<>>,
               handler |-> NoValue]

WithinBounds(h) == Total(h.tokCalls, DOMAIN h.tokCalls) <= MaxLoads

Commit(h) ==
    /\ models' = h.models
    /\ tokenizers' = h.tokenizers
    /\ tokCalls' = h.tokCalls
    /\ mdlCalls' = h.mdlCalls
    /\ loadFailed' = h.loadFailed

(* POST /translate *)
PostTranslate ==
    \E text \in Texts, args \in LangArgs, fault \in Faults :
        LET source == args[1]
            target == args[2]
        IN \E r \in {Translate(Handler, fault, text, target, source)} :
            /\ WithinBounds(r.h)
            /\ Commit(r.h)
            /\ last' = [op |-> "translate", texts |-> <<text>>, target |-> target,
                        source |-> source, out |-> r.out, inv |-> <<Trace(r, text)>>,
                        handler |-> NoValue]

(* The outcomes of the external calls during one batch: the invocation at
   position `at` meets the fault `kind`, the others meet none.  The first
   exception ends the batch, so this covers every outcome of the loop. *)
BatchFaults(n) ==
    { [i \in 1..n |-> "none"] }
    \cup { [i \in 1..n |-> IF i = at THEN kind ELSE "none"] :
              at \in 1..n, kind \in Faults \ {"none"} }

(* POST /translate/batch *)
PostBatch ==
    \E texts \in TextLists, args \in LangArgs :
      \E faults \in BatchFaults(Len(texts)) :
        LET source == args[1]
            target == args[2]
        IN \E r \in {BatchTranslate(Handler, faults, texts, target, source)} :
            /\ WithinBounds(r.h)
            /\ Commit(r.h)
            /\ last' = [op |-> "batch", texts |-> texts, target |-> target,
                        source |-> source, out |-> r.out, inv |-> r.inv,
                        handler |-> NoValue]

(* POST /detect *)
PostDetect ==
    \E text \in Texts, fault \in {"none", "detect"} :
        /\ UNCHANGED <<models, tokenizers, tokCalls, mdlCalls, loadFailed>>
        /\ last' = [op |-> "detect", texts |-> <<text>>, target |-> EmptyStr,
                    source |-> NoneVal, out |-> DetectEndpoint(text, fault),
                    inv |-> <<>>, handler |-> DetectLanguage(text, fault)]

Next == PostTranslate \/ PostBatch \/ PostDetect

Spec == Init /\ [][Next]_vars

(***************************************************************************)
(* Claims                                                                  *)
(***************************************************************************)
IsTranslate(l) == l.op = "translate"
IsBatch(l) == l.op = "batch"
Supplied(source) == Truthy(source)

(* C1: translate(t, target_lang=L, source_lang=L) for a language code L
   returns translated_text = t, detected_language = L, confidence = 1.0,
   calls from_pretrained not once and leaves models and tokenizers (and the
   repository's call counts) as they were, whatever they held. *)
C1_SameLanguageShortCircuit ==
    [][ (IsTranslate(last') /\ Supplied(last'.source)
         /\ last'.source = last'.target)
        => /\ last'.out = TranslationResponse(last'.texts[1], last'.target, 100)
           /\ last'.inv[1].loads = 0
           /\ last'.inv[1].detects = 0
           /\ models' = models
           /\ tokenizers' = tokenizers
           /\ tokCalls' = tokCalls
           /\ mdlCalls' = mdlCalls ]_vars

(* C1 witness: a same-language translate answered while the dictionaries
   hold a model and a tokenizer without its model. *)
C1_Witness ==
    /\ IsTranslate(last)
    /\ last.source = PT /\ last.target = PT
    /\ last.out.cls = "TranslationResponse"
    /\ DOMAIN models # {}
    /\ DOMAIN tokenizers # DOMAIN models

(* C2: for a model name none of whose from_pretrained calls raised, however
   many requests resolved it, the repository served exactly one tokenizer
   load and one model load, the entry is cached, and the invocation that
   resolved it last was given that cached entry. *)
C2_SingleMaterialization ==
    /\ \A n \in DOMAIN tokCalls :
          n \notin loadFailed
          => /\ tokCalls[n] = 1
             /\ Count(mdlCalls, n) = 1
             /\ n \in DOMAIN models
             /\ n \in DOMAIN tokenizers
             /\ models[n].serial = 1
             /\ tokenizers[n].serial = 1
    /\ \A i \in 1..Len(last.inv) :
          (last.inv[i].entry # NoValue /\ last.inv[i].name \notin loadFailed)
          => last.inv[i].entry = models[last.inv[i].name]

(* C2 witness: a translate that resolved an already cached name without any
   from_pretrained call, the name never having failed. *)
C2_Witness ==
    /\ IsTranslate(last)
    /\ last.out.cls = "TranslationResponse"
    /\ last.inv[1].name # NoneVal
    /\ last.inv[1].name \notin loadFailed
    /\ last.inv[1].loads = 0
    /\ tokCalls[last.inv[1].name] = 1

(* C3: a translate whose _load_model raised fails with the 400 that names
   both codes and leaves models and tokenizers as they were before it. *)
C3_FailedLoadLeavesCache ==
    [][ (IsTranslate(last') /\ last'.inv[1].loadRaised)
        => /\ last'.out = UnsupportedPair(last'.inv[1].eff, last'.target)
           /\ last'.out.status_code = 400
           /\ models' = models
           /\ tokenizers' = tokenizers ]_vars

(* C4: a batch_translate that returns gives one outcome per text, in input
   order, the i-th being what a single translate of the i-th text with the
   same target and source returns whenever it returns. *)
C4_BatchMatchesSingle ==
    (IsBatch(last) /\ ~Raised(last.out))
    => /\ Len(last.out.translations) = Len(last.texts)
       /\ \A i \in 1..Len(last.texts) : \A fault \in Faults :
             ~Raised(Translate(Handler, fault, last.texts[i], last.target,
                               last.source).out)
             => last.out.translations[i]
                  = Translate(Handler, fault, last.texts[i], last.target,
                              last.source).out

(* C4 witness: a returned batch of three texts whose outcomes differ. *)
C4_Witness ==
    /\ IsBatch(last) /\ ~Raised(last.out)
    /\ Len(last.texts) = 3
    /\ last.out.translations[1] # last.out.translations[2]
    /\ last.out.translations[1].confidence = 95

(* C5: when translate raises for the item at position i of a batch, the
   batch raises that exception, returns no list, and the invocations of
   translate are exactly those for the items 1..i. *)
C5_FirstFailureAborts ==
    IsBatch(last)
    => /\ Len(last.inv) <= Len(last.texts)
       /\ \A k \in 1..Len(last.inv) : last.inv[k].text = last.texts[k]
       /\ \A i \in 1..Len(last.inv) :
             Raised(last.inv[i].out)
             => /\ Len(last.inv) = i
                /\ last.out = last.inv[i].out
                /\ last.out.cls = "HTTPException"
       /\ (Raised(last.out) => Len(last.inv) >= 1
                               /\ Raised(last.inv[Len(last.inv)].out))

(* C5 witness: a batch of three texts that failed at its second item. *)
C5_Witness ==
    /\ IsBatch(last)
    /\ Len(last.texts) = 3
    /\ Len(last.inv) = 2
    /\ Raised(last.out)

(* The effective source language of the last translate as the claim C6
   gives it: the supplied one when `present`, the detected one otherwise. *)
EffectiveSource(present) ==
    IF present THEN last.source
    ELSE DetectLanguage(last.texts[1], "none").detected_language

C6_Statement(present) ==
    IsTranslate(last)
    => /\ last.inv[1].detects = (IF present THEN 0 ELSE 1)
       /\ ~Raised(last.out)
          => /\ last.out.detected_language = EffectiveSource(present)
             /\ last.inv[1].eff = EffectiveSource(present)
             /\ EffectiveSource(present) # last.target
                => /\ last.inv[1].name
                        = GetModelName(EffectiveSource(present), last.target)
                   /\ last.inv[1].entry.name = last.inv[1].name
                   /\ last.inv[1].entry = models[last.inv[1].name]

(* C6 as stated: translate calls detect_language exactly when
   source_language is absent (None), and every returned outcome carries the
   effective source language and comes from the model of the pair
   (effective source, target). *)
C6_DetectIffAbsent == C6_Statement(last.source # NoneVal)

(* C6 as amended: translate calls detect_language exactly when
   source_language is absent or the empty string; the rest as stated. *)
C6_DetectIffAbsentOrEmpty == C6_Statement(last.source \notin {NoneVal, EmptyStr})

(* C6 witness: a translate with an empty source_language that detected
   Breton and returned the translation of the model br -> pt. *)
C6_Witness ==
    /\ IsTranslate(last)
    /\ last.source = EmptyStr
    /\ last.inv[1].detects = 1
    /\ last.out.cls = "TranslationResponse"
    /\ last.out.detected_language = BR
    /\ last.inv[1].name = GetModelName(BR, PT)

(* C7: when the identifier succeeds, POST /detect answers with the language
   code and the score of the top prediction, the outcome of
   detect_language(text). *)
C7_DetectEndpointReturnsDetection ==
    (last.op = "detect" /\ ~Raised(last.handler)) => last.out = last.handler

(* C8: the tokenizer dictionary and the model dictionary hold the same
   keys in every reachable state. *)
C8_CachedAsUnit == DOMAIN tokenizers = DOMAIN models

(* C9: the dictionaries start empty and every entry, once stored, stays and
   stays the same instance. *)
C9_CacheOnlyGrows ==
    /\ models = EmptyDict /\ tokenizers = EmptyDict
    /\ [][ /\ \A n \in DOMAIN models :
                n \in DOMAIN models' /\ models'[n] = models[n]
           /\ \A n \in DOMAIN tokenizers :
                n \in DOMAIN tokenizers' /\ tokenizers'[n] = tokenizers[n] ]_vars

(* C10: two pairs of language codes get the same cache key, and so the same
   entry, only if they are the same pair: the entry an invocation is given
   was loaded for its own (source, target). *)
C10_KeyInjective ==
    \A i \in 1..Len(last.inv) :
        last.inv[i].entry # NoValue
        => last.inv[i].entry.loadedFor = <<last.inv[i].eff, last.target>>

====
